---- MODULE Spec2Model ----
(***************************************************************************)
(* Failure-handling core of bchikara/what-if.                              *)
(*                                                                         *)
(* The CircuitBreaker class of the Kafka consumer (bundled in              *)
(* src/bloom-filter/scripts/seed-data.js, lines 179-240) and the database  *)
(* write it protects (lines 288-319).  Time is Date.now() in milliseconds, *)
(* measured from the construction of the breaker.                          *)
(*                                                                         *)
(* The Kafka path around it: the producer endpoint POST /produce-event     *)
(* (src/unnamed/part_001, lines 140-183) and the consumer's eachMessage    *)
(* handler with its metrics (seed-data.js, lines 246-319).  The gauge      *)
(* kafka_consumer_lag_seconds, which the handler sets from the message's   *)
(* timestamp and nothing reads, is left out, and with it the timestamp.    *)
(***************************************************************************)
EXTENDS Integers, Naturals, Sequences, FiniteSets, TLC

(* ------------------------------ bounds --------------------------------- *)

\* largest failure threshold passed to the constructor
MaxThreshold == 5
\* largest resetTimeout passed to the constructor, in clock steps
MaxResetTicks == 2
\* the clock is advanced at most this many steps
MaxTicks == 5
\* the failure counter is followed up to this value
MaxFailureCount == 7
\* number of execute calls that may be in flight at once in SpecConc
NumCallers == 2
\* milliseconds by which one clock step advances Date.now()
TickMs == 30000
\* number of POST /produce-event requests followed in SpecKafka
MaxEvents == 3
\* the largest TOTAL_USERNAMES and the largest BLOOM_FILTER_SIZE a seeding run is
\* configured with
TotalUsernames == 2
\* BATCH_SIZE of seed-data.js (10000), at the scale of TotalUsernames
BatchSize == 2
\* BATCH_SIZE of seed-remaining.js (5000), at the scale of TotalUsernames
PageSize == 2
\* the wall clock of the seeding scripts is advanced at most this many steps
MaxClock == 1
\* number of POST /check-username requests followed in SpecBloom
MaxRequests == 2
\* seconds by which one step advances the runner's clock
RunnerTickS == 5

(* --------------------------- program constants ------------------------- *)

\* generateUsername: two of the ten prefixes and one of the nine suffixes
Prefixes == << "user", "dev" >>
Suffixes == << "_x" >>
\* BLOOM_FILTER_FPR, and the 0.01 of loadBloomFilter, in percent
BloomFilterFpr == 1
LoaderFpr == 1
\* -ln(p) for the percentage p, ln 2 and (ln 2)^2, in millionths
NegLnMicro(p) == CASE p = 1 -> 4605170
Ln2Micro == 693147
Ln2SqMicro == 480453
Million == 1000000
\* the hash functions of the package, as multiply-and-add over the key's number
HashAMul == 7919
HashAAdd == 104729
HashBMul == 31337
HashBAdd == 17
HashRange == 65536

\* runner.js CONFIG: crashAt, restoreAt, totalDuration and the phases' durations, in seconds
CrashAt == 90
RestoreAt == 210
TotalDuration == 300
PhaseDurations == << 30, 60, 120, 90 >>

\* onSuccess: `if (this.successCount >= 3)`
SuccessesToClose == 3
\* new CircuitBreaker(5, 3000, 60000): the `timeout` argument
TimeoutMs == 3000
\* waitTime = Math.ceil((nextAttempt - now) / 1000)
MsPerSecond == 1000

Callers == 1 .. NumCallers
\* the consumer's eachMessage handler: kafkajs runs it one message at a time
Consumer == 1

Thresholds == 1 .. MaxThreshold
ResetTimeouts == { k * TickMs : k \in 1 .. MaxResetTicks }

VARIABLES
    circuitBreaker,   \* the CircuitBreaker object: its fields
    now,              \* Date.now()
    dbUp,             \* the PostgreSQL container is running
    pc,               \* per caller: "idle", or "pending" while `await fn()` is outstanding
    fnSettled,        \* how the last settled fn() ended
    lastCall,         \* what the last finished execute() gave its caller
    halfOpenStreak,   \* history: successes in a row since HALF_OPEN was entered or a failure
                      \* completed, counted up to SuccessesToClose + 1
    halfOpenProbes    \* history: operations invoked since HALF_OPEN was entered, 0 outside
                      \* HALF_OPEN, counted up to ProbeCap

\* the Kafka producer and consumer processes
VARIABLES
    topic,                      \* the messages of topic 'driver-locations', oldest first
    offset,                     \* number of messages whose eachMessage handler has returned
    driverLocations,            \* events inserted into table driver_locations
    kafkaProduceTotal,          \* producer counter kafka_produce_total, by status label
    produceResponse,            \* the last response of POST /produce-event
    circuitBreakerStateMetric,  \* gauge circuit_breaker_state
    dbWriteFailures,            \* counter db_write_failures_total
    bufferedEvents,             \* gauge kafka_buffered_events_estimate
    healthResponse              \* the last response of the consumer's GET /health

\* the username seeding scripts and the Bloom filter service
VARIABLES
    env,                  \* process.env of seed-data.js: TOTAL_USERNAMES, BLOOM_FILTER_SIZE
    scan,                 \* buildBloomFilterFromPostgres: its locals filter, offset and
                          \* processed, and history: the rows it has added, in order
    usernamesTable,       \* rows of table usernames, in id order
    redisUsernames,       \* the Redis set 'usernames'
    seedPc,               \* seed-data.js main: "idle", "redis", "bloom", "done"
    remainingPc,          \* seed-remaining.js main: "idle", "redis", "bloom", "scan"
    totalCount,           \* seed-remaining.js main: the row count it read
    wallClock,            \* new Date() of the machine the scripts run on
    filter,               \* the filter object of the latest build, in the script's memory
    bloomFile,            \* the contents of bloom-filter.json
    buildLog,             \* history: the two latest builds: the item count the filter was
                          \* created for, the keys added, their number, the file written
    serviceState,         \* the Bloom service: "stopped", "listening", "exited" (with code 1)
    bloomFilter,          \* the service's filter object
    bloomChecksTotal,     \* counter bloom_checks_total, by result label
    dbFallbacksTotal,     \* counter bloom_db_fallbacks_total, by actual_result label
    falsePositivesTotal,  \* counter bloom_false_positives_total
    httpRequestsTotal,    \* counter bloom_http_requests_total of POST, by status label
    checkResponse         \* the last response of POST /check-username

\* the experiment runner k6/runner.js
VARIABLES
    runnerPc,      \* run(): "idle", "running" from scheduleDatabaseChaos on, "done", "exited"
    elapsed,       \* seconds since scheduleDatabaseChaos set its timers
    chaosTimers,   \* per timer: "pending", then "done" or "failed" as its command ended,
                   \* and history: the second it fired at
    k6Open         \* the architectures whose k6 process has not closed

cbVars == << circuitBreaker, now, dbUp, pc, fnSettled, lastCall, halfOpenStreak, halfOpenProbes >>

kafkaVars == << topic, offset, driverLocations, kafkaProduceTotal, produceResponse,
                circuitBreakerStateMetric, dbWriteFailures, bufferedEvents, healthResponse >>

seedVars == << env, scan, usernamesTable, redisUsernames, seedPc, remainingPc, totalCount,
               wallClock, filter, bloomFile, buildLog >>

serviceVars == << serviceState, bloomFilter, bloomChecksTotal, dbFallbacksTotal,
                  falsePositivesTotal, httpRequestsTotal, checkResponse >>

bloomVars == << seedVars, serviceVars >>

runnerVars == << runnerPc, elapsed, chaosTimers, k6Open >>

vars == << cbVars, kafkaVars, bloomVars, runnerVars >>

(* ------------------------------ values --------------------------------- *)

NoError == [name |-> "", message |-> ""]
NoResult == "none"

\* values the wrapped operation may resolve with (the consumer's write resolves undefined)
FnResults == {"undefined", "rows"}

\* errors pool.query rejects with while PostgreSQL is down
OperationErrors ==
    { [name |-> "Error", message |-> "connect ECONNREFUSED"],
      [name |-> "Error", message |-> "timeout exceeded when trying to connect"] }

\* Math.ceil(ms / 1000) for ms >= 0
CeilSeconds(ms) == (ms + MsPerSecond - 1) \div MsPerSecond

\* new Error(`Circuit breaker OPEN. Next attempt in ${waitTime}s`)
OpenError(b, t) ==
    [name |-> "Error",
     message |-> "Circuit breaker OPEN. Next attempt in "
                 \o ToString(CeilSeconds(b.nextAttempt - t)) \o "s"]

(* --------------------------- CircuitBreaker ---------------------------- *)

\* constructor(threshold, timeout, resetTimeout)
NewCircuitBreaker(threshold, timeout, resetTimeout, t) ==
    [failureThreshold |-> threshold,
     timeout          |-> timeout,
     resetTimeout     |-> resetTimeout,
     state            |-> "CLOSED",
     failureCount     |-> 0,
     nextAttempt      |-> t,
     successCount     |-> 0]

\* the refusal test with the comparison turned around
IsRefusedAfterDeadline(b, t) == b.state = "OPEN" /\ t > b.nextAttempt

\* execute, lines 191-192: the call is refused
IsRefused(b, t) == b.state = "OPEN" /\ t < b.nextAttempt

\* Admit without the test `this.state === 'OPEN'`
AdmitAnyState(b, t) == [b EXCEPT !.state = "HALF_OPEN"]

\* execute, lines 191-198: the breaker after the admission check of a call that is let through
Admit(b, t) ==
    IF b.state = "OPEN" THEN [b EXCEPT !.state = "HALF_OPEN"] ELSE b

\* onSuccess without `this.failureCount = 0`
OnSuccessKeepsCount(b) ==
    IF b.state = "HALF_OPEN"
    THEN LET b2 == [b EXCEPT !.successCount = @ + 1] IN
         IF b2.successCount >= SuccessesToClose
         THEN [b2 EXCEPT !.state = "CLOSED", !.successCount = 0]
         ELSE b2
    ELSE b

\* onSuccess testing for the wrong state, so that a probe never closes the breaker
OnSuccessWrongState(b) ==
    LET b1 == [b EXCEPT !.failureCount = 0] IN
    IF b1.state = "OPEN"
    THEN LET b2 == [b1 EXCEPT !.successCount = @ + 1] IN
         IF b2.successCount >= SuccessesToClose
         THEN [b2 EXCEPT !.state = "CLOSED", !.successCount = 0]
         ELSE b2
    ELSE b1

\* onSuccess
OnSuccess(b) ==
    LET b1 == [b EXCEPT !.failureCount = 0] IN
    IF b1.state = "HALF_OPEN"
    THEN LET b2 == [b1 EXCEPT !.successCount = @ + 1] IN
         IF b2.successCount >= SuccessesToClose
         THEN [b2 EXCEPT !.state = "CLOSED", !.successCount = 0]
         ELSE b2
    ELSE b1

\* onFailure with `>` for `>=`
OnFailureStrict(b, t) ==
    LET b1 == [b EXCEPT !.failureCount = @ + 1] IN
    IF b1.failureCount > b1.failureThreshold
    THEN [b1 EXCEPT !.state = "OPEN", !.nextAttempt = t + b1.resetTimeout]
    ELSE b1

\* onFailure
OnFailure(b, t) ==
    LET b1 == [b EXCEPT !.failureCount = @ + 1] IN
    IF b1.failureCount >= b1.failureThreshold
    THEN [b1 EXCEPT !.state = "OPEN", !.nextAttempt = t + b1.resetTimeout]
    ELSE b1

\* execute, lines 202-203: what the caller gets when fn() resolved with r
ReturnOf(r) ==
    [invoked |-> TRUE, type |-> "return", result |-> r, error |-> NoError]

\* a catch block that records the failure and does not rethrow
RethrowSwallowed(e) ==
    [invoked |-> TRUE, type |-> "return", result |-> "undefined", error |-> NoError]

\* execute, lines 204-206: what the caller gets when fn() rejected with e
RethrowOf(e) ==
    [invoked |-> TRUE, type |-> "throw", result |-> NoResult, error |-> e]

\* execute, line 194: what the caller gets when the call is refused
RefusalOf(b, t) ==
    [invoked |-> FALSE, type |-> "throw", result |-> NoResult, error |-> OpenError(b, t)]

\* getState
GetState(b) == b.state

\* getStateValue with the codes of HALF_OPEN and OPEN exchanged
GetStateValueSwapped(b) ==
    CASE b.state = "CLOSED"    -> 0
      [] b.state = "HALF_OPEN" -> 2
      [] b.state = "OPEN"      -> 1
      [] OTHER                 -> 0

\* getStateValue: states[this.state] || 0
GetStateValue(b) ==
    CASE b.state = "CLOSED"    -> 0
      [] b.state = "HALF_OPEN" -> 1
      [] b.state = "OPEN"      -> 2
      [] OTHER                 -> 0

\* probes a caller that waits for each outcome can ever make in one HALF_OPEN episode:
\* every success but the last may be followed by failureThreshold - 1 failures
ProbeLimit(b) == SuccessesToClose * b.failureThreshold

\* the probe history is followed one past the largest ProbeLimit
ProbeCap == SuccessesToClose * MaxThreshold + 1

\* the probe history after a step that leaves the breaker as b
ProbesAfter(b, invoked) ==
    IF b.state # "HALF_OPEN" THEN 0
    ELSE IF invoked /\ circuitBreaker.state = "OPEN" THEN 1
    ELSE IF invoked /\ halfOpenProbes < ProbeCap THEN halfOpenProbes + 1
    ELSE halfOpenProbes

(* ------------------------------- Init ---------------------------------- *)

NoResponse == [status |-> 0, sendOk |-> FALSE, dbUp |-> FALSE]

NoHealth == [status |-> 0, text |-> "none", circuitBreaker |-> "none"]

\* the producer and the consumer right after start: nothing produced, metrics at 0
KafkaInit ==
    /\ topic = << >>
    /\ offset = 0
    /\ driverLocations = {}
    /\ kafkaProduceTotal = [status \in {"202", "500"} |-> 0]
    /\ produceResponse = NoResponse
    /\ circuitBreakerStateMetric = 0
    /\ dbWriteFailures = 0
    /\ bufferedEvents = 0
    /\ healthResponse = NoHealth

\* `let bloomFilter;` before loadBloomFilter has run, and a script that has built nothing
NoFilter == [undefined |-> TRUE, size |-> -1, nbHashes |-> -1, bits |-> {}]
\* bloom-filter.json does not exist
NoFile == [missing |-> TRUE]
\* a username that is not of the generated shape: undefined, or the empty string
NoUsername == [prefix |-> "", index |-> -1, suffix |-> ""]
\* a username that is no string but is truthy: the number 42
NumberUsername == [prefix |-> "", index |-> 42, suffix |-> ""]
\* filterChecks and storeQueries: history, the calls of bloomFilter.has and of pool.query
\* the request made
NoCheck == [status |-> 0, username |-> NoUsername, exists |-> FALSE, mightExist |-> FALSE,
            databaseQueried |-> FALSE, falsePositive |-> FALSE, filterChecks |-> 0,
            storeQueries |-> 0, body |-> "none", queryFailed |-> FALSE]

\* the Bloom service before it is started: no filter object, metrics at 0
ServiceInit ==
    /\ serviceState = "stopped"
    /\ bloomFilter = NoFilter
    /\ bloomChecksTotal = [result \in {"maybe_exists", "definitely_not_exists"} |-> 0]
    /\ dbFallbacksTotal = [actual_result \in {"exists", "not_exists"} |-> 0]
    /\ falsePositivesTotal = 0
    /\ httpRequestsTotal = [status \in {"200", "400", "500"} |-> 0]
    /\ checkResponse = NoCheck

\* buildBloomFilterFromPostgres is not running
NoScan == [filter |-> NoFilter, offset |-> 0, processed |-> 0, keys |-> << >>]

\* TOTAL_USERNAMES and BLOOM_FILTER_SIZE as set in the environment, any positive numbers
Configurations ==
    {[TOTAL_USERNAMES |-> t, BLOOM_FILTER_SIZE |-> n] :
        t \in 1 .. TotalUsernames, n \in 1 .. TotalUsernames}

\* the defaults of seed-data.js lines 8 and 10: both the same number
DefaultConfiguration ==
    [TOTAL_USERNAMES |-> TotalUsernames, BLOOM_FILTER_SIZE |-> TotalUsernames]

\* before any seeding script has run: an empty table, no file
NothingSeeded ==
    /\ scan = NoScan
    /\ usernamesTable = << >>
    /\ redisUsernames = {}
    /\ seedPc = "idle"
    /\ remainingPc = "idle"
    /\ totalCount = 0
    /\ wallClock = 0
    /\ filter = NoFilter
    /\ bloomFile = NoFile
    /\ buildLog = << >>
    /\ ServiceInit

\* the Bloom filter project untouched, its scripts left at their defaults
BloomInit == env = DefaultConfiguration /\ NothingSeeded

\* a timer that has not fired
PendingTimer == [state |-> "pending", firedAt |-> -1]

\* the runner before run() is called
RunnerInit ==
    /\ runnerPc = "idle"
    /\ elapsed = 0
    /\ chaosTimers = [name \in {"crash", "restore"} |-> PendingTimer]
    /\ k6Open = {}

NoCall == [invoked |-> FALSE, type |-> "none", result |-> NoResult, error |-> NoError]
NoSettle == [type |-> "none", result |-> NoResult, error |-> NoError]

Init ==
    /\ \E threshold \in Thresholds, resetTimeout \in ResetTimeouts :
          circuitBreaker = NewCircuitBreaker(threshold, TimeoutMs, resetTimeout, 0)
    /\ now = 0
    /\ dbUp = TRUE
    /\ pc = [c \in Callers |-> "idle"]
    /\ fnSettled = NoSettle
    /\ lastCall = NoCall
    /\ halfOpenStreak = 0
    /\ halfOpenProbes = 0
    /\ KafkaInit
    /\ BloomInit
    /\ RunnerInit

(* ------------------------------ actions -------------------------------- *)

\* execute up to `await fn()`: refuse, or pass the admission check and invoke fn
ExecuteCall(c) ==
    /\ pc[c] = "idle"
    /\ IF IsRefused(circuitBreaker, now)
       THEN /\ lastCall' = RefusalOf(circuitBreaker, now)
            /\ UNCHANGED << circuitBreaker, pc, halfOpenStreak, halfOpenProbes >>
       ELSE /\ circuitBreaker' = Admit(circuitBreaker, now)
            /\ halfOpenProbes' = ProbesAfter(Admit(circuitBreaker, now), TRUE)
            /\ pc' = [pc EXCEPT ![c] = "pending"]
            /\ halfOpenStreak' = IF circuitBreaker.state = "OPEN" THEN 0 ELSE halfOpenStreak
            /\ UNCHANGED lastCall
    /\ UNCHANGED << now, dbUp, fnSettled >>
    /\ UNCHANGED << bloomVars, runnerVars >>

\* an execute call of a caller other than the consumer's handler
Execute(c) == ExecuteCall(c) /\ UNCHANGED kafkaVars

\* fn() resolved: onSuccess, return result
FnResolvedCall(c) ==
    /\ pc[c] = "pending"
    /\ dbUp
    /\ \E r \in FnResults :
          /\ fnSettled' = [type |-> "resolved", result |-> r, error |-> NoError]
          /\ lastCall' = ReturnOf(r)
    /\ circuitBreaker' = OnSuccess(circuitBreaker)
    /\ halfOpenProbes' = ProbesAfter(OnSuccess(circuitBreaker), FALSE)
    /\ halfOpenStreak' = IF circuitBreaker.state = "HALF_OPEN" /\ halfOpenStreak <= SuccessesToClose
                         THEN halfOpenStreak + 1 ELSE halfOpenStreak
    /\ pc' = [pc EXCEPT ![c] = "idle"]
    /\ UNCHANGED << now, dbUp >>
    /\ UNCHANGED << bloomVars, runnerVars >>

FnResolved(c) == FnResolvedCall(c) /\ UNCHANGED kafkaVars

\* fn() rejected: onFailure, throw err
FnRejectedCall(c) ==
    /\ pc[c] = "pending"
    /\ ~dbUp
    /\ circuitBreaker.failureCount < MaxFailureCount
    /\ \E e \in OperationErrors :
          /\ fnSettled' = [type |-> "rejected", result |-> NoResult, error |-> e]
          /\ lastCall' = RethrowOf(e)
    /\ circuitBreaker' = OnFailure(circuitBreaker, now)
    /\ halfOpenProbes' = ProbesAfter(OnFailure(circuitBreaker, now), FALSE)
    /\ halfOpenStreak' = 0
    /\ pc' = [pc EXCEPT ![c] = "idle"]
    /\ UNCHANGED << now, dbUp >>
    /\ UNCHANGED << bloomVars, runnerVars >>

FnRejected(c) == FnRejectedCall(c) /\ UNCHANGED kafkaVars

\* the clock advances, with a timer that ends the cooldown at the deadline
TickWithTimer ==
    /\ now < MaxTicks * TickMs
    /\ now' = now + TickMs
    /\ circuitBreaker' = IF circuitBreaker.state = "OPEN" /\ now' >= circuitBreaker.nextAttempt
                         THEN [circuitBreaker EXCEPT !.state = "HALF_OPEN"]
                         ELSE circuitBreaker
    /\ UNCHANGED << dbUp, pc, fnSettled, lastCall, halfOpenStreak, halfOpenProbes >>
    /\ UNCHANGED << kafkaVars, bloomVars, runnerVars >>

\* the clock advances
Tick ==
    /\ now < MaxTicks * TickMs
    /\ now' = now + TickMs
    /\ UNCHANGED << circuitBreaker, dbUp, pc, fnSettled, lastCall, halfOpenStreak, halfOpenProbes >>
    /\ UNCHANGED << kafkaVars, bloomVars, runnerVars >>

\* docker-compose kill postgres
DbCrash ==
    /\ dbUp
    /\ dbUp' = FALSE
    /\ UNCHANGED << circuitBreaker, now, pc, fnSettled, lastCall, halfOpenStreak, halfOpenProbes >>
    /\ UNCHANGED << kafkaVars, bloomVars, runnerVars >>

\* docker-compose up -d postgres
DbRestore ==
    /\ ~dbUp
    /\ dbUp' = TRUE
    /\ UNCHANGED << circuitBreaker, now, pc, fnSettled, lastCall, halfOpenStreak, halfOpenProbes >>
    /\ UNCHANGED << kafkaVars, bloomVars, runnerVars >>

\* the consumer: one message, hence one execute call, at a time
Next ==
    \/ Execute(Consumer)
    \/ FnResolved(Consumer)
    \/ FnRejected(Consumer)
    \/ Tick
    \/ DbCrash
    \/ DbRestore

Spec == Init /\ [][Next]_vars

\* the class under several callers: execute calls overlap at `await fn()`
NextConc ==
    \/ \E c \in Callers : Execute(c)
    \/ \E c \in Callers : FnResolved(c)
    \/ \E c \in Callers : FnRejected(c)
    \/ Tick
    \/ DbCrash
    \/ DbRestore

SpecConc == Init /\ [][NextConc]_vars

\* the consumer under fair scheduling: arriving messages are handed to execute,
\* a pending write settles, and the clock keeps running
LiveSpec ==
    /\ Init
    /\ [][Next]_vars
    /\ WF_vars(Execute(Consumer))
    /\ WF_vars(FnResolved(Consumer))
    /\ WF_vars(FnRejected(Consumer))
    /\ WF_vars(Tick)

(* ------------------------- Kafka producer and consumer ------------------ *)

\* POST /produce-event with a database that answers like the REST service's
ProduceStatusDbCoupled(sendOk, db) == IF sendOk /\ db THEN 202 ELSE 500

\* POST /produce-event: the status sent, given whether producer.send resolved and
\* whether PostgreSQL is up
ProduceStatus(sendOk, db) == IF sendOk THEN 202 ELSE 500

\* POST /produce-event
ProduceEvent ==
    /\ kafkaProduceTotal["202"] + kafkaProduceTotal["500"] < MaxEvents
    /\ \E sendOk \in BOOLEAN :
          LET status == ProduceStatus(sendOk, dbUp)
              id == kafkaProduceTotal["202"] + kafkaProduceTotal["500"] + 1 IN
          /\ topic' = IF sendOk THEN Append(topic, [id |-> id]) ELSE topic
          /\ kafkaProduceTotal' =
                [kafkaProduceTotal EXCEPT ![ToString(status)] = @ + 1]
          /\ produceResponse' = [status |-> status, sendOk |-> sendOk, dbUp |-> dbUp]
    /\ UNCHANGED << cbVars, bloomVars, runnerVars >>
    /\ UNCHANGED << offset, driverLocations, circuitBreakerStateMetric,
                    dbWriteFailures, bufferedEvents, healthResponse >>

\* the message the consumer's handler is working on
CurrentMessage == topic[offset + 1]

\* eachMessage, catch block: count the failure, publish the state, count the event as
\* buffered when the breaker is OPEN; b is the breaker after execute threw
CatchBlock(b) ==
    /\ dbWriteFailures' = dbWriteFailures + 1
    /\ circuitBreakerStateMetric' = GetStateValue(b)
    /\ bufferedEvents' = IF GetState(b) = "OPEN" THEN bufferedEvents + 1 ELSE bufferedEvents

\* eachMessage up to the await of the write: the handler ends here when execute refuses
EachMessage ==
    /\ offset < Len(topic)
    /\ ExecuteCall(Consumer)
    /\ IF IsRefused(circuitBreaker, now)
       THEN /\ CatchBlock(circuitBreaker)
            /\ offset' = offset + 1
       ELSE UNCHANGED << offset, circuitBreakerStateMetric, dbWriteFailures, bufferedEvents >>
    /\ UNCHANGED << topic, driverLocations, kafkaProduceTotal, produceResponse,
                    healthResponse >>

\* eachMessage after the INSERT succeeded
EachMessageWritten ==
    /\ FnResolvedCall(Consumer)
    /\ driverLocations' = driverLocations \cup {CurrentMessage.id}
    /\ circuitBreakerStateMetric' = GetStateValue(OnSuccess(circuitBreaker))
    /\ offset' = offset + 1
    /\ UNCHANGED << topic, kafkaProduceTotal, produceResponse, dbWriteFailures,
                    bufferedEvents, healthResponse >>

\* eachMessage after the INSERT failed
EachMessageFailed ==
    /\ FnRejectedCall(Consumer)
    /\ CatchBlock(OnFailure(circuitBreaker, now))
    /\ offset' = offset + 1
    /\ UNCHANGED << topic, driverLocations, kafkaProduceTotal, produceResponse,
                    healthResponse >>

\* a health check that takes a HALF_OPEN breaker for healthy
IsHealthyUnlessOpen(state) == state # "OPEN"

\* GET /health: const isHealthy = state === 'CLOSED'
IsHealthy(state) == state = "CLOSED"

\* the consumer's GET /health: 200 'healthy' when getState() is CLOSED, else 503 'degraded'
Health ==
    /\ healthResponse' =
          [status |-> IF IsHealthy(GetState(circuitBreaker)) THEN 200 ELSE 503,
           text |-> IF IsHealthy(GetState(circuitBreaker)) THEN "healthy" ELSE "degraded",
           circuitBreaker |-> GetState(circuitBreaker)]
    /\ UNCHANGED << topic, offset, driverLocations, kafkaProduceTotal, produceResponse,
                    circuitBreakerStateMetric, dbWriteFailures, bufferedEvents >>
    /\ UNCHANGED << cbVars, bloomVars, runnerVars >>

\* producer, consumer, PostgreSQL and the clock
NextKafka ==
    \/ ProduceEvent
    \/ EachMessage
    \/ EachMessageWritten
    \/ EachMessageFailed
    \/ Health
    \/ Tick
    \/ DbCrash
    \/ DbRestore

SpecKafka == Init /\ [][NextKafka]_vars

(* ------------------- the Bloom filter: seeding and build --------------- *)
(* The scripts seed-data.js (lines 1-171) and seed-remaining.js, and the   *)
(* BloomFilter class of the npm package bloom-filters they call.  The      *)
(* package is no part of the repository: the filter is taken as the        *)
(* scripts use it, an object with a bit count `size`, a hash count         *)
(* `nbHashes` and a bit array, whose add sets and whose has tests the      *)
(* nbHashes positions (hashA + i * hashB) mod size of a key.               *)

\* NaN, and undefined where a number is read
NotANumber == -1

\* the elements of sequence s
Range(s) == {s[i] : i \in 1 .. Len(s)}

PositionIn(s, x) == CHOOSE i \in 1 .. Len(s) : s[i] = x

CeilDiv(a, b) == (a + b - 1) \div b

\* the usernames generateUsername can return for an index: Math.random() picks the
\* prefix and the suffix anew on every call
GenerateUsername(index) ==
    {[prefix |-> Prefixes[i], index |-> index, suffix |-> Suffixes[j]] :
        i \in 1 .. Len(Prefixes), j \in 1 .. Len(Suffixes)}

\* the indices the batch loops of seedPostgreSQL and seedRedis pass to generateUsername
\* are 0 .. BatchedCount(TOTAL_USERNAMES) - 1: `batch < TOTAL_USERNAMES / BATCH_SIZE`
\* holds for ceil(TOTAL_USERNAMES / BATCH_SIZE) batches, and each batch is a full one
BatchedCount(total) == CeilDiv(total, BatchSize) * BatchSize

\* the usernames a request can ask about: the generated ones and one index past them
Usernames == UNION {GenerateUsername(index) : index \in 0 .. BatchedCount(TotalUsernames)}

\* what the calls generateUsername(0), ..., generateUsername(count - 1) of one loop can
\* return
GeneratedLists(count) ==
    {[i \in 1 .. count |->
         [prefix |-> Prefixes[draw[i][1]], index |-> i - 1, suffix |-> Suffixes[draw[i][2]]]] :
        draw \in [1 .. count -> (1 .. Len(Prefixes)) \X (1 .. Len(Suffixes))]}

\* the two hashes of a key, a number computed from its text
KeyCode(u) ==
    (PositionIn(Prefixes, u.prefix) - 1)
        + Len(Prefixes) * ((PositionIn(Suffixes, u.suffix) - 1) + Len(Suffixes) * u.index)
HashA(u) == (KeyCode(u) * HashAMul + HashAAdd) % HashRange
HashB(u) == (KeyCode(u) * HashBMul + HashBAdd) % HashRange

\* the i-th bit position of key u in a filter of `size` bits
Index(u, i, size) == (HashA(u) + i * HashB(u)) % size

\* BloomFilter.create(nbItems, errorRate): m = ceil(-n ln p / (ln 2)^2) bits
OptimalFilterSize(n, p) ==
    IF n = NotANumber THEN NotANumber ELSE CeilDiv(n * NegLnMicro(p), Ln2SqMicro)

\* BloomFilter.create(nbItems, errorRate): k = ceil(m / n * ln 2) hashes
OptimalHashes(size, n) ==
    IF size = NotANumber \/ n = NotANumber \/ n = 0
    THEN NotANumber
    ELSE CeilDiv(size * Ln2Micro, n * Million)

Create(n, p) ==
    [size |-> OptimalFilterSize(n, p),
     nbHashes |-> OptimalHashes(OptimalFilterSize(n, p), n),
     bits |-> {}]

\* a filter object whose size or hash count is no number
Malformed(f) == f.size = NotANumber \/ f.nbHashes = NotANumber

\* filter.add that sets only the first position of a key
AddFirstPosition(f, u) ==
    IF Malformed(f) THEN f ELSE [f EXCEPT !.bits = @ \cup {Index(u, 0, f.size)}]

\* filter.add(username)
Add(f, u) ==
    IF Malformed(f) THEN f
    ELSE [f EXCEPT !.bits = @ \cup {Index(u, i, f.size) : i \in 0 .. f.nbHashes - 1}]

\* filter.add for every key of a list, first to last
RECURSIVE AddAll(_, _)
AddAll(f, keys) ==
    IF keys = << >> THEN f ELSE AddAll(Add(f, Head(keys)), Tail(keys))

\* filter.has(username) of a well-formed filter: positions past the bit array read as unset
Has(f, u) == \A i \in 0 .. f.nbHashes - 1 : Index(u, i, f.size) \in f.bits

\* what has can answer: on an object the package did not build itself, and for a key
\* that is no string, the answer is the package's affair
HasOutcomes(f, u) == IF Malformed(f) \/ u \notin Usernames THEN BOOLEAN ELSE {Has(f, u)}

Metadata(totalItems, fpr, createdAt) ==
    [totalItems |-> totalItems, fpr |-> fpr, createdAt |-> createdAt]

\* seed-data.js buildBloomFilter: the filterData it writes
FilterData(f, totalItems, fpr, createdAt) ==
    [size |-> f.size, nbHashes |-> f.nbHashes, bits |-> f.bits,
     metadata |-> Metadata(totalItems, fpr, createdAt)]

\* filter.saveAsJSON(): the package's export, under the package's own key names
SaveAsJSON(f) ==
    [type |-> "BloomFilter", _size |-> f.size, _nbHashes |-> f.nbHashes, _filter |-> f.bits]

\* an export whose hash count carries the time of the build
ExportedDataStamped(f, totalItems, fpr, createdAt) ==
    SaveAsJSON([f EXCEPT !.nbHashes = @ + createdAt])
        @@ [metadata |-> Metadata(totalItems, fpr, createdAt)]

\* seed-remaining.js buildBloomFilterFromPostgres: { ...exported, metadata }
ExportedData(f, totalItems, fpr, createdAt) ==
    SaveAsJSON(f) @@ [metadata |-> Metadata(totalItems, fpr, createdAt)]

\* the two latest builds, e the latest
Logged(e) == IF Len(buildLog) < 2 THEN Append(buildLog, e) ELSE << buildLog[2], e >>

\* seed-data.js seedPostgreSQL: DROP TABLE, CREATE TABLE, one generated username per index
\* of every batch
SeedPostgreSQL ==
    /\ seedPc = "idle"
    /\ remainingPc = "idle"
    /\ \E l \in GeneratedLists(BatchedCount(env.TOTAL_USERNAMES)) : usernamesTable' = l
    /\ seedPc' = "redis"
    /\ UNCHANGED << env, scan, redisUsernames, remainingPc, totalCount, wallClock, filter, bloomFile,
                    buildLog >>
    /\ UNCHANGED << cbVars, kafkaVars, serviceVars, runnerVars >>

\* seed-data.js seedRedis: del, then sAdd of one generated username per index of every batch
SeedRedis ==
    /\ seedPc = "redis"
    /\ \E l \in GeneratedLists(BatchedCount(env.TOTAL_USERNAMES)) : redisUsernames' = Range(l)
    /\ seedPc' = "bloom"
    /\ UNCHANGED << env, scan, usernamesTable, remainingPc, totalCount, wallClock, filter, bloomFile,
                    buildLog >>
    /\ UNCHANGED << cbVars, kafkaVars, serviceVars, runnerVars >>

\* seed-data.js buildBloomFilter: create for BLOOM_FILTER_SIZE items, add one generated
\* username per index below TOTAL_USERNAMES, write the file
BuildBloomFilter ==
    /\ seedPc = "bloom"
    /\ \E l \in GeneratedLists(env.TOTAL_USERNAMES) :
          LET built == AddAll(Create(env.BLOOM_FILTER_SIZE, BloomFilterFpr), l)
              filterData == FilterData(built, env.TOTAL_USERNAMES, BloomFilterFpr, wallClock) IN
          /\ filter' = built
          /\ bloomFile' = filterData
          /\ buildLog' = Logged([script |-> "seed-data", nbItems |-> env.BLOOM_FILTER_SIZE,
                                 keys |-> l, processed |-> Len(l), output |-> filterData])
    /\ seedPc' = "done"
    /\ UNCHANGED << env, scan, usernamesTable, redisUsernames, remainingPc, totalCount, wallClock >>
    /\ UNCHANGED << cbVars, kafkaVars, serviceVars, runnerVars >>

\* seed-remaining.js main: SELECT COUNT(*) FROM usernames
CountUsernames ==
    /\ remainingPc = "idle"
    /\ seedPc \in {"idle", "done"}
    /\ totalCount' = Len(usernamesTable)
    /\ remainingPc' = "redis"
    /\ UNCHANGED << env, scan, usernamesTable, redisUsernames, seedPc, wallClock, filter, bloomFile,
                    buildLog >>
    /\ UNCHANGED << cbVars, kafkaVars, serviceVars, runnerVars >>

\* seed-remaining.js seedRedisFromPostgres: del, then sAdd of every row
SeedRedisFromPostgres ==
    /\ remainingPc = "redis"
    /\ redisUsernames' = Range(usernamesTable)
    /\ remainingPc' = "bloom"
    /\ UNCHANGED << env, scan, usernamesTable, seedPc, totalCount, wallClock, filter, bloomFile,
                    buildLog >>
    /\ UNCHANGED << cbVars, kafkaVars, serviceVars, runnerVars >>

\* SELECT username FROM usernames ORDER BY id LIMIT limit OFFSET offset
Page(table, limit, rowOffset) ==
    SubSeq(table, rowOffset + 1,
           IF rowOffset + limit < Len(table) THEN rowOffset + limit ELSE Len(table))

\* a scan whose pages overlap by one row
NextOffsetOverlapping(rowOffset) == rowOffset + PageSize - 1

\* offset += BATCH_SIZE
NextOffset(rowOffset) == rowOffset + PageSize

\* seed-remaining.js buildBloomFilterFromPostgres up to its loop: create the filter
BuildBloomFilterFromPostgres ==
    /\ remainingPc = "bloom"
    /\ scan' = [filter |-> Create(totalCount, BloomFilterFpr), offset |-> 0, processed |-> 0,
                keys |-> << >>]
    /\ remainingPc' = "scan"
    /\ UNCHANGED << env, usernamesTable, redisUsernames, seedPc, totalCount, wallClock, filter,
                    bloomFile, buildLog >>
    /\ UNCHANGED << cbVars, kafkaVars, serviceVars, runnerVars >>

\* buildBloomFilterFromPostgres, one turn of `while (true)`: query a page, add its rows
\* in id order, move the offset; at an empty page or after a short one leave the loop
\* and write the file
ScanPage ==
    /\ remainingPc = "scan"
    /\ LET rows == Page(usernamesTable, PageSize, scan.offset)
           added == [filter |-> AddAll(scan.filter, rows),
                     offset |-> IF rows = << >> THEN scan.offset ELSE NextOffset(scan.offset),
                     processed |-> scan.processed + Len(rows),
                     keys |-> scan.keys \o rows]
           filterData == ExportedData(added.filter, totalCount, BloomFilterFpr, wallClock) IN
       IF rows # << >> /\ Len(rows) >= PageSize
       THEN /\ scan' = added
            /\ UNCHANGED << remainingPc, filter, bloomFile, buildLog >>
       ELSE /\ scan' = NoScan
            /\ filter' = added.filter
            /\ bloomFile' = filterData
            /\ buildLog' = Logged([script |-> "seed-remaining", nbItems |-> totalCount,
                                   keys |-> added.keys, processed |-> added.processed,
                                   output |-> filterData])
            /\ remainingPc' = "idle"
    /\ UNCHANGED << env, usernamesTable, redisUsernames, seedPc, totalCount, wallClock >>
    /\ UNCHANGED << cbVars, kafkaVars, serviceVars, runnerVars >>

\* time passes on the machine the scripts run on
ClockTick ==
    /\ wallClock < MaxClock
    /\ wallClock' = wallClock + 1
    /\ UNCHANGED << env, scan, usernamesTable, redisUsernames, seedPc, remainingPc, totalCount, filter,
                    bloomFile, buildLog >>
    /\ UNCHANGED << cbVars, kafkaVars, serviceVars, runnerVars >>

\* the Kafka services, which the scripts and the Bloom service do not touch, as they start
OtherServicesInit ==
    /\ circuitBreaker = NewCircuitBreaker(MaxThreshold, TimeoutMs, MaxResetTicks * TickMs, 0)
    /\ now = 0
    /\ dbUp = TRUE
    /\ pc = [c \in Callers |-> "idle"]
    /\ fnSettled = NoSettle
    /\ lastCall = NoCall
    /\ halfOpenStreak = 0
    /\ halfOpenProbes = 0
    /\ KafkaInit

\* nothing seeded, nothing built
InitSeed ==
    /\ OtherServicesInit
    /\ env \in Configurations
    /\ NothingSeeded
    /\ RunnerInit

\* the two scripts, run one at a time
NextSeed ==
    \/ SeedPostgreSQL
    \/ SeedRedis
    \/ BuildBloomFilter
    \/ CountUsernames
    \/ SeedRedisFromPostgres
    \/ BuildBloomFilterFromPostgres
    \/ ScanPage
    \/ ClockTick

SpecSeed == InitSeed /\ [][NextSeed]_vars

\* the tables seed-remaining.js may find: up to one row more than a page holds
MaxRows == PageSize + 1
ScanTables == UNION {GeneratedLists(count) : count \in 0 .. MaxRows}

\* seed-remaining.js is run on a table that was filled before, however far
InitScan ==
    /\ OtherServicesInit
    /\ RunnerInit
    /\ ServiceInit
    /\ env = DefaultConfiguration
    /\ scan = NoScan
    /\ usernamesTable \in ScanTables
    /\ redisUsernames = {}
    /\ seedPc = "idle"
    /\ remainingPc = "idle"
    /\ totalCount = 0
    /\ wallClock = 0
    /\ filter = NoFilter
    /\ bloomFile = NoFile
    /\ buildLog = << >>

\* seed-remaining.js alone, run any number of times
NextScan ==
    \/ CountUsernames
    \/ SeedRedisFromPostgres
    \/ BuildBloomFilterFromPostgres
    \/ ScanPage

SpecScan == InitScan /\ [][NextScan]_vars

\* seed-remaining.js with a PostgreSQL that answers every query of the scan
LiveScan == SpecScan /\ WF_vars(ScanPage)

(* --------------------------- the Bloom service ------------------------- *)
(* src/kafka-vs-rest-polling/init.sql, lines 10-199: loadBloomFilter and   *)
(* POST /check-username.                                                   *)

\* data.<name> of the parsed file, undefined when the file has no such key
NumberField(data, name) == IF name \in DOMAIN data THEN data[name] ELSE NotANumber

\* new Uint8Array(data.bits): empty when the file has no key `bits`
BitsField(data) == IF "bits" \in DOMAIN data THEN data.bits ELSE {}

\* loadBloomFilter: BloomFilter.create(data.size, 0.01), then _bits and nbHashes are
\* overwritten from the file; the size stays the one create computed
LoadBloomFilter(data) ==
    [size |-> Create(NumberField(data, "size"), LoaderFpr).size,
     nbHashes |-> NumberField(data, "nbHashes"),
     bits |-> BitsField(data)]

\* a start that goes on to listen when the file is missing
StateAfterLoadLenient(data) == "listening"

\* where the start ends: process.exit(1) when the file is missing, else app.listen
StateAfterLoad(data) == IF data = NoFile THEN "exited" ELSE "listening"

\* the Bloom service starts: loadBloomFilter, then app.listen
StartService ==
    /\ serviceState = "stopped"
    /\ serviceState' = StateAfterLoad(bloomFile)
    /\ bloomFilter' = IF bloomFile = NoFile THEN bloomFilter ELSE LoadBloomFilter(bloomFile)
    /\ UNCHANGED << bloomChecksTotal, dbFallbacksTotal, falsePositivesTotal,
                    httpRequestsTotal, checkResponse >>
    /\ UNCHANGED << cbVars, kafkaVars, seedVars, runnerVars >>

\* number of POST /check-username requests answered
RequestsAnswered ==
    httpRequestsTotal["200"] + httpRequestsTotal["400"] + httpRequestsTotal["500"]

\* a handler that queries the table whatever the filter said
ConsultStoreAlways(mightExist) == TRUE

\* `if (mightExist)`: the table is queried
ConsultStore(mightExist) == mightExist

\* a handler that flags every username it reports as absent
IsFalsePositiveUnqueried(dbQueried, exists) == ~exists

\* `if (!exists)` inside `if (mightExist)`
IsFalsePositive(dbQueried, exists) == dbQueried /\ ~exists

\* the label of a fallback with the two results exchanged
ActualResultSwapped(exists) == IF exists THEN "not_exists" ELSE "exists"

\* dbFallbacksTotal.inc({ actual_result: exists ? 'exists' : 'not_exists' })
ActualResult(exists) == IF exists THEN "exists" ELSE "not_exists"

\* a handler that answers 200 when the store query was rejected
AnswerStatusFailOpen(dbQueried, queryOk) == 200

\* the status the handler answers a request that has a username with: 500 from the
\* catch block when pool.query was called and rejected, else 200
AnswerStatus(dbQueried, queryOk) == IF dbQueried /\ ~queryOk THEN 500 ELSE 200

\* POST /check-username, lines 123-188: the handler's counters and its response; the
\* response carries the kind of its JSON body ("verdict": available and exists, "error":
\* an error text only) and, as history, whether the store query of the request failed
CheckUsernameHandler ==
    /\ serviceState = "listening"
    /\ RequestsAnswered < MaxRequests
    /\ \E username \in Usernames \cup {NoUsername, NumberUsername}, queryOk \in BOOLEAN :
          IF username = NoUsername
          THEN /\ httpRequestsTotal' = [httpRequestsTotal EXCEPT !["400"] = @ + 1]
               /\ checkResponse' = [NoCheck EXCEPT !.status = 400, !.body = "error"]
               /\ UNCHANGED << bloomChecksTotal, dbFallbacksTotal, falsePositivesTotal >>
          ELSE \E mightExist \in HasOutcomes(bloomFilter, username) :
               LET dbQueried == ConsultStore(mightExist)
                   exists == dbQueried /\ username \in Range(usernamesTable)
                   falsePositive == IsFalsePositive(dbQueried, exists) IN
               /\ bloomChecksTotal' =
                     [bloomChecksTotal EXCEPT
                        ![IF mightExist THEN "maybe_exists" ELSE "definitely_not_exists"] = @ + 1]
               /\ IF AnswerStatus(dbQueried, queryOk) = 500
                  THEN /\ httpRequestsTotal' = [httpRequestsTotal EXCEPT !["500"] = @ + 1]
                       /\ checkResponse' =
                             [NoCheck EXCEPT !.status = 500, !.username = username,
                                             !.filterChecks = 1, !.storeQueries = 1,
                                             !.body = "error", !.queryFailed = TRUE]
                       /\ UNCHANGED << dbFallbacksTotal, falsePositivesTotal >>
                  ELSE /\ dbFallbacksTotal' =
                             IF dbQueried
                             THEN [dbFallbacksTotal EXCEPT ![ActualResult(exists)] = @ + 1]
                             ELSE dbFallbacksTotal
                       /\ falsePositivesTotal' =
                             IF falsePositive THEN falsePositivesTotal + 1
                             ELSE falsePositivesTotal
                       /\ httpRequestsTotal' = [httpRequestsTotal EXCEPT !["200"] = @ + 1]
                       /\ checkResponse' =
                             [status |-> 200, username |-> username, exists |-> exists,
                              mightExist |-> mightExist, databaseQueried |-> dbQueried,
                              falsePositive |-> falsePositive, filterChecks |-> 1,
                              storeQueries |-> IF dbQueried THEN 1 ELSE 0,
                              body |-> "verdict", queryFailed |-> dbQueried /\ ~queryOk]
    /\ UNCHANGED serviceState
    /\ UNCHANGED << cbVars, kafkaVars, seedVars, runnerVars >>

\* a handler that adds every name it is asked about to the filter
CheckUsernameLearning ==
    /\ CheckUsernameHandler
    /\ bloomFilter' = IF checkResponse'.username \in Usernames /\ ~Malformed(bloomFilter)
                      THEN Add(bloomFilter, checkResponse'.username)
                      ELSE bloomFilter

\* POST /check-username: bloomFilter is read by has (line 135) and assigned nowhere
CheckUsername ==
    /\ CheckUsernameHandler
    /\ UNCHANGED bloomFilter

\* the state seed-data.js leaves: the table and the Redis set hold list `stored`, the
\* filter was built from list `keys`
AfterSeedData(stored, keys) ==
    LET built == AddAll(Create(env.BLOOM_FILTER_SIZE, BloomFilterFpr), keys)
        filterData == FilterData(built, env.TOTAL_USERNAMES, BloomFilterFpr, 0) IN
    /\ scan = NoScan
    /\ usernamesTable = stored
    /\ redisUsernames = Range(stored)
    /\ seedPc = "done"
    /\ remainingPc = "idle"
    /\ totalCount = 0
    /\ wallClock = 0
    /\ filter = built
    /\ bloomFile = filterData
    /\ buildLog = << [script |-> "seed-data", nbItems |-> env.BLOOM_FILTER_SIZE,
                       keys |-> keys, processed |-> Len(keys), output |-> filterData] >>

\* the state seed-remaining.js leaves when it is the first to build from the table that
\* holds list `stored`
AfterSeedRemaining(stored) ==
    LET built == AddAll(Create(Len(stored), BloomFilterFpr), stored)
        filterData == ExportedData(built, Len(stored), BloomFilterFpr, 0) IN
    /\ scan = NoScan
    /\ usernamesTable = stored
    /\ redisUsernames = Range(stored)
    /\ seedPc = "idle"
    /\ remainingPc = "idle"
    /\ totalCount = Len(stored)
    /\ wallClock = 0
    /\ filter = built
    /\ bloomFile = filterData
    /\ buildLog = << [script |-> "seed-remaining", nbItems |-> Len(stored),
                       keys |-> stored, processed |-> Len(stored), output |-> filterData] >>

\* the service is started on what the seeding scripts left, or on nothing
InitBloom ==
    /\ OtherServicesInit
    /\ RunnerInit
    /\ ServiceInit
    /\ \/ BloomInit
       \/ /\ env \in Configurations
          /\ \E stored \in GeneratedLists(BatchedCount(env.TOTAL_USERNAMES)),
                keys \in GeneratedLists(env.TOTAL_USERNAMES) : AfterSeedData(stored, keys)
       \/ /\ env \in Configurations
          /\ \E stored \in GeneratedLists(BatchedCount(env.TOTAL_USERNAMES)) :
                AfterSeedRemaining(stored)

NextBloom ==
    \/ StartService
    \/ CheckUsername

SpecBloom == InitBloom /\ [][NextBloom]_vars

(* ------------------------ the experiment runner ------------------------ *)
(* src/kafka-vs-rest-polling/k6/runner.js: run, scheduleDatabaseChaos and  *)
(* the two k6 processes.  A docker-compose command is short against the    *)
(* clock's step: it has ended, well or not, in the step its timer fires.   *)

Architectures == {"rest", "kafka"}

\* the duration the generated k6 script runs for: the sum of the phases
RECURSIVE SumOf(_)
SumOf(durations) ==
    IF durations = << >> THEN 0 ELSE Head(durations) + SumOf(Tail(durations))
LoadDurationS == SumOf(PhaseDurations)

\* a schedule that sets the crash timer to restoreAt and the restore timer to crashAt
TimerDelaySwapped(name) == IF name = "crash" THEN RestoreAt ELSE CrashAt

\* scheduleDatabaseChaos: the delay of each setTimeout, in seconds
TimerDelay(name) == IF name = "crash" THEN CrashAt ELSE RestoreAt

\* the timer is due
Due(name) == chaosTimers[name].state = "pending" /\ elapsed >= TimerDelay(name)

\* run(): checkPrerequisites, then scheduleDatabaseChaos and the two k6 processes
RunExperiment ==
    /\ runnerPc = "idle"
    /\ \E prerequisites \in BOOLEAN :
          IF prerequisites
          THEN /\ runnerPc' = "running"
               /\ k6Open' = Architectures
          ELSE /\ runnerPc' = "exited"
               /\ UNCHANGED k6Open
    /\ UNCHANGED << elapsed, chaosTimers >>
    /\ UNCHANGED << cbVars, kafkaVars, bloomVars >>

\* time passes; a timer that is due fires before more time passes
RunnerTick ==
    /\ runnerPc = "running"
    /\ elapsed < LoadDurationS
    /\ \A name \in DOMAIN chaosTimers : ~Due(name)
    /\ elapsed' = elapsed + RunnerTickS
    /\ UNCHANGED << runnerPc, chaosTimers, k6Open >>
    /\ UNCHANGED << cbVars, kafkaVars, bloomVars >>

\* a setTimeout callback of scheduleDatabaseChaos runs: timers fire in the order of
\* their delays; the docker-compose command kills or starts PostgreSQL, or fails
FireTimer(name) ==
    /\ runnerPc = "running"
    /\ Due(name)
    /\ \A other \in DOMAIN chaosTimers :
          chaosTimers[other].state = "pending" => TimerDelay(name) <= TimerDelay(other)
    /\ \E commandOk \in BOOLEAN :
          /\ chaosTimers' = [chaosTimers EXCEPT
                ![name] = [state |-> IF commandOk THEN "done" ELSE "failed",
                           firedAt |-> elapsed]]
          /\ dbUp' = IF commandOk THEN name = "restore" ELSE dbUp
    /\ UNCHANGED << runnerPc, elapsed, k6Open >>
    /\ UNCHANGED << circuitBreaker, now, pc, fnSettled, lastCall, halfOpenStreak,
                    halfOpenProbes >>
    /\ UNCHANGED << kafkaVars, bloomVars >>

\* a k6 process closes when its script has run its duration; run() goes on when both did
K6Close(architecture) ==
    /\ runnerPc = "running"
    /\ architecture \in k6Open
    /\ elapsed >= LoadDurationS
    /\ k6Open' = k6Open \ {architecture}
    /\ runnerPc' = IF k6Open' = {} THEN "done" ELSE runnerPc
    /\ UNCHANGED << elapsed, chaosTimers >>
    /\ UNCHANGED << cbVars, kafkaVars, bloomVars >>

NextChaos ==
    \/ RunExperiment
    \/ RunnerTick
    \/ \E name \in {"crash", "restore"} : FireTimer(name)
    \/ \E architecture \in Architectures : K6Close(architecture)

SpecChaos == InitSeed /\ [][NextChaos]_vars

(* ------------------------- steps seen from outside --------------------- *)

\* caller c's execute call invokes the wrapped operation in this step
Invokes(c) == pc[c] = "idle" /\ pc'[c] = "pending"

\* caller c's invoked operation completes in this step
Completes(c) == pc[c] = "pending" /\ pc'[c] = "idle"

\* caller c's invoked operation completes with a failure in this step
CompletesFailed(c) == Completes(c) /\ fnSettled'.type = "rejected"

\* caller c's invoked operation completes with a success in this step
CompletesOk(c) == Completes(c) /\ fnSettled'.type = "resolved"

\* an execute call arrives in this step: the step is not the clock's, not the
\* database's and not the completion of an operation invoked earlier
CallArrives ==
    /\ now' = now
    /\ dbUp' = dbUp
    /\ \A c \in Callers : ~Completes(c)
    /\ \E c \in Callers : pc[c] = "idle"

\* a refusal is the outcome of the last finished call
LastCallRefused == lastCall.type = "throw" /\ ~lastCall.invoked

(* ------------------------------- claims -------------------------------- *)

\* C1: a CLOSED breaker never holds failureThreshold failures in a row; the failure
\* that completes the run moves it to OPEN with nextAttempt = now + resetTimeout;
\* and while it is OPEN before nextAttempt it stays OPEN, the deadline is not moved
\* earlier and no execute call invokes the operation, whatever the database would do.
C1_TripRejectsUntilDeadline ==
    [][ /\ (circuitBreaker.state = "CLOSED"
              => circuitBreaker.failureCount < circuitBreaker.failureThreshold)
        /\ \A c \in Callers :
              ( /\ CompletesFailed(c)
                /\ circuitBreaker.state = "CLOSED"
                /\ circuitBreaker.failureCount + 1 >= circuitBreaker.failureThreshold )
              => /\ circuitBreaker'.state = "OPEN"
                 /\ circuitBreaker'.nextAttempt = now + circuitBreaker.resetTimeout
        /\ (circuitBreaker.state = "OPEN" /\ now < circuitBreaker.nextAttempt)
              => /\ circuitBreaker'.state = "OPEN"
                 /\ circuitBreaker'.nextAttempt >= circuitBreaker.nextAttempt
                 /\ \A c \in Callers : ~Invokes(c)
      ]_vars

\* a call was refused inside the cooldown although the database is up
C1_Witness ==
    /\ LastCallRefused
    /\ dbUp
    /\ circuitBreaker.state = "OPEN"
    /\ now < circuitBreaker.nextAttempt

\* C2: a failure that completes while the breaker is HALF_OPEN moves it to OPEN,
\* sets nextAttempt = now + resetTimeout and leaves successCount = 0.
C2_HalfOpenFailureReopens ==
    [][ \A c \in Callers :
           (CompletesFailed(c) /\ circuitBreaker.state = "HALF_OPEN")
           => /\ circuitBreaker'.state = "OPEN"
              /\ circuitBreaker'.nextAttempt = now + circuitBreaker.resetTimeout
              /\ circuitBreaker'.successCount = 0
      ]_vars

\* C3: the step from HALF_OPEN to CLOSED is the SuccessesToClose-th success in a row
\* since HALF_OPEN was entered, with no failure in between.
C3_ClosesAfterExactStreak ==
    [][ (circuitBreaker.state = "HALF_OPEN" /\ circuitBreaker'.state = "CLOSED")
           => halfOpenStreak' = SuccessesToClose
      ]_vars

\* C4: failureCount and successCount are never both non-zero.
C4_CountersExclusive ==
    ~(circuitBreaker.failureCount > 0 /\ circuitBreaker.successCount > 0)

\* C5: the breaker starts CLOSED and its state changes only CLOSED -> OPEN,
\* OPEN -> HALF_OPEN, HALF_OPEN -> OPEN and HALF_OPEN -> CLOSED.
C5_Transitions ==
    /\ circuitBreaker.state = "CLOSED"
    /\ [][ \/ circuitBreaker'.state = circuitBreaker.state
           \/ << circuitBreaker.state, circuitBreaker'.state >> \in
                 { << "CLOSED", "OPEN" >>, << "OPEN", "HALF_OPEN" >>,
                   << "HALF_OPEN", "OPEN" >>, << "HALF_OPEN", "CLOSED" >> }
         ]_vars

\* the breaker is CLOSED again after a trip and a probe that failed back to OPEN
C5_Witness ==
    /\ circuitBreaker.state = "CLOSED"
    /\ circuitBreaker.nextAttempt > circuitBreaker.resetTimeout
    /\ circuitBreaker.failureCount = 0

\* C6: with calls in flight together, every completed failure adds one to
\* failureCount, and a failure that completes while the breaker is already OPEN
\* neither moves nextAttempt nor changes the state.
C6_OpenEnteredOncePerTrip ==
    [][ \A c \in Callers :
           CompletesFailed(c)
           => /\ circuitBreaker'.failureCount = circuitBreaker.failureCount + 1
              /\ circuitBreaker.state = "OPEN"
                    => /\ circuitBreaker'.state = "OPEN"
                       /\ circuitBreaker'.nextAttempt = circuitBreaker.nextAttempt
      ]_vars

\* C7: if the database stays up from some point on and the clock passes every
\* cooldown deadline, the breaker is eventually CLOSED for good.
C7_Recovers ==
    ( /\ <>[]dbUp
      /\ []<>(now >= circuitBreaker.nextAttempt) )
    => <>[](circuitBreaker.state = "CLOSED")

\* the breaker has tripped, the cooldown is over and it is CLOSED with the database up
C7_Witness ==
    /\ circuitBreaker.state = "CLOSED"
    /\ circuitBreaker.nextAttempt > 0
    /\ now >= circuitBreaker.nextAttempt
    /\ dbUp
    /\ lastCall.type = "return"

\* C8: when an invoked operation completes, the caller gets its outcome: the value
\* it resolved with is returned, the error it rejected with is thrown, unchanged,
\* and a thrown failure has been counted.
C8_OutcomePropagated ==
    [][ \A c \in Callers :
           Completes(c)
           => /\ lastCall'.invoked
              /\ fnSettled'.type = "resolved"
                    => /\ lastCall'.type = "return"
                       /\ lastCall'.result = fnSettled'.result
              /\ fnSettled'.type = "rejected"
                    => /\ lastCall'.type = "throw"
                       /\ lastCall'.error = fnSettled'.error
                       /\ circuitBreaker'.failureCount = circuitBreaker.failureCount + 1
      ]_vars

\* the last call invoked the operation and threw the operation's own error
C8_Witness ==
    /\ lastCall.invoked
    /\ lastCall.type = "throw"
    /\ lastCall.error \in OperationErrors
    /\ fnSettled.type = "rejected"

\* C9: the error of a refused call is of a kind that no failure of the wrapped
\* operation has, and it carries the time left until nextAttempt.
C9_RefusalIsDistinctKind ==
    LastCallRefused
    => /\ lastCall.error.name = "CircuitOpenError"
       /\ lastCall.error.name \notin { e.name : e \in OperationErrors }

\* C10: successCount is non-zero only while the breaker is HALF_OPEN.
C10_SuccessCountOnlyHalfOpen ==
    circuitBreaker.successCount > 0 => circuitBreaker.state = "HALF_OPEN"

\* C11: HALF_OPEN admits a limited number of probes: the operations invoked since
\* HALF_OPEN was entered never exceed the number the breaker's own settings account for.
C11_HalfOpenProbesLimited ==
    circuitBreaker.state = "HALF_OPEN"
    => halfOpenProbes <= ProbeLimit(circuitBreaker)

\* C12: no consumed event is lost: every event the consumer has finished with is in
\* table driver_locations; an event that is not written yet is still held for its write.
C12_NoConsumedEventLost ==
    \A i \in 1 .. offset : topic[i].id \in driverLocations

\* C13: POST /produce-event answers 202 exactly when the Kafka send succeeded and 500
\* exactly when it failed, whether PostgreSQL is up or down at that moment.
C13_ProducerIgnoresDatabase ==
    produceResponse # NoResponse
    => /\ produceResponse.sendOk => produceResponse.status = 202
       /\ ~produceResponse.sendOk => produceResponse.status = 500

\* an event was accepted with 202 while PostgreSQL was down
C13_Witness ==
    /\ produceResponse.status = 202
    /\ ~produceResponse.dbUp
    /\ kafkaProduceTotal["202"] > 0

\* the latest build: its keys and what it wrote
LatestBuild == buildLog[Len(buildLog)]

C15_StoredKeysInserted ==
    (seedPc = "done" /\ buildLog # << >> /\ LatestBuild.script = "seed-data") =>
        Range(usernamesTable) \subseteq Range(LatestBuild.keys)

\* the filter objects f and g agree in size, hash count, bits and every answer
SameFilter(f, g) ==
    /\ f.size = g.size
    /\ f.nbHashes = g.nbHashes
    /\ f.bits = g.bits
    /\ \A u \in Usernames : HasOutcomes(f, u) = HasOutcomes(g, u)

(* C16: the round trip through bloom-filter.json is faithful.  The filter  *)
(* the service has loaded equals the filter the build script wrote, in     *)
(* size, hash count and bits, and answers every query as that one does.    *)
C16_RoundTripFaithful ==
    serviceState = "listening" => SameFilter(bloomFilter, filter)

(* C17: the composite lookup is correct.  Every answered lookup reports    *)
(* exists exactly when table usernames holds the username, and queries the *)
(* table at most once.                                                     *)
C17_LookupCorrect ==
    checkResponse.status = 200 =>
        /\ checkResponse.exists <=> checkResponse.username \in Range(usernamesTable)
        /\ checkResponse.storeQueries <= 1

(* C18: a negative answer of the filter ends the lookup.  The response     *)
(* reports the username as absent and not as a false positive, and the     *)
(* table was not queried.                                                  *)
C18_NegativeSkipsStore ==
    (checkResponse.status = 200 /\ ~checkResponse.mightExist) =>
        /\ ~checkResponse.exists
        /\ ~checkResponse.falsePositive
        /\ ~checkResponse.databaseQueried
        /\ checkResponse.storeQueries = 0

\* a lookup the filter answered with no
C18_Witness ==
    /\ checkResponse.status = 200
    /\ ~checkResponse.mightExist
    /\ bloomChecksTotal["definitely_not_exists"] > 0

\* this step answers a lookup with status 200
AnswersLookup ==
    /\ httpRequestsTotal'["200"] = httpRequestsTotal["200"] + 1
    /\ checkResponse'.status = 200

(* C19: a positive answer of the filter is verified.  The table is queried *)
(* once, the response reports what the table says, and falsePositive holds *)
(* exactly when the table was queried and denied, in which case the        *)
(* false-positive counter goes up by one and otherwise stays.              *)
C19_PositiveVerified ==
    [][AnswersLookup =>
          /\ checkResponse'.mightExist =>
                /\ checkResponse'.storeQueries = 1
                /\ checkResponse'.exists <=>
                      checkResponse'.username \in Range(usernamesTable)
          /\ checkResponse'.falsePositive <=>
                (checkResponse'.databaseQueried /\ ~checkResponse'.exists)
          /\ falsePositivesTotal' =
                falsePositivesTotal + (IF checkResponse'.falsePositive THEN 1 ELSE 0)]_vars

\* a lookup the filter answered with yes and the table denied
C19_Witness ==
    /\ checkResponse.status = 200
    /\ checkResponse.mightExist
    /\ checkResponse.falsePositive
    /\ falsePositivesTotal > 0

\* builds i and j of the log were made by the same script from the same ordered key list
\* (the false-positive rate is BLOOM_FILTER_FPR in both)
SameInput(i, j) ==
    /\ buildLog[i].script = buildLog[j].script
    /\ buildLog[i].keys = buildLog[j].keys

\* what a build wrote, apart from the time it was written at
Undated(output) == [output EXCEPT !.metadata.createdAt = 0]

C21_RedisMatchesPostgres ==
    (seedPc \in {"bloom", "done"} /\ remainingPc \in {"idle", "bloom"}) =>
        redisUsernames = Range(usernamesTable)

(* C22: no query on a filter that was not loaded.  The service listens and *)
(* answers lookups only with a filter object loaded from an existing file; *)
(* started without the file it exits with code 1 and answers nothing.      *)
C22_NoQueryBeforeLoad ==
    /\ RequestsAnswered > 0 => serviceState = "listening"
    /\ serviceState = "listening" => (bloomFile # NoFile /\ bloomFilter # NoFilter)
    /\ (serviceState # "stopped" /\ bloomFile = NoFile) =>
          (serviceState = "exited" /\ RequestsAnswered = 0 /\ bloomFilter = NoFilter)

\* the service was started without the file
C22_Witness == serviceState = "exited" /\ bloomFile = NoFile

(* C23: a malformed lookup is refused.  A request whose username is        *)
(* missing or is not a string is answered with status 400, and neither the *)
(* filter nor the table was consulted for it.                              *)
C23_MalformedKeyRefused ==
    (checkResponse.status # 0 /\ checkResponse.username \notin Usernames) =>
        /\ checkResponse.status = 400
        /\ checkResponse.filterChecks = 0
        /\ checkResponse.storeQueries = 0

(* C24: building from no keys gives a valid, always-negative filter.  The  *)
(* filter a script built from an empty key list has a size and a hash      *)
(* count that are numbers, and answers no for every username.              *)
C24_EmptyBuildAlwaysNegative ==
    (buildLog # << >> /\ LatestBuild.keys = << >>) =>
        /\ ~Malformed(filter)
        /\ \A u \in Usernames : HasOutcomes(filter, u) = {FALSE}

\* the code README documents for a state: 0=CLOSED, 1=HALF_OPEN, 2=OPEN
StateCode(state) == IF state = "CLOSED" THEN 0 ELSE IF state = "HALF_OPEN" THEN 1 ELSE 2

(* C25: the state queries are read-only and encode the state as 0, 1, 2.   *)
(* A GET /health, which only calls getState, reports the breaker's state   *)
(* and leaves the breaker as it was; and whenever the consumer's handler   *)
(* ends, the gauge it sets from getStateValue is 0 for CLOSED, 1 for       *)
(* HALF_OPEN and 2 for OPEN, the state the breaker has then.               *)
C25_StateQueriesReadOnly ==
    [][/\ healthResponse' # healthResponse =>
             /\ circuitBreaker' = circuitBreaker
             /\ healthResponse'.circuitBreaker = circuitBreaker.state
       /\ offset' # offset =>
             circuitBreakerStateMetric' = StateCode(circuitBreaker'.state)]_vars

\* the breaker seen OPEN by GET /health and by the gauge
C25_Witness ==
    /\ healthResponse.circuitBreaker = "OPEN"
    /\ circuitBreakerStateMetric = 2
    /\ circuitBreaker.state = "OPEN"

\* the timer's command has run and succeeded
CommandDone(name) == chaosTimers[name].state = "done"

\* the timer has fired, at its delay or within one step of the clock after it, while
\* both load tests were running
FiredOnTime(name, at) ==
    /\ at <= chaosTimers[name].firedAt
    /\ chaosTimers[name].firedAt < at + RunnerTickS
    /\ chaosTimers[name].firedAt < TotalDuration
    /\ chaosTimers[name].firedAt < LoadDurationS

C28_RefusalChangesNothing ==
    [][ ( /\ circuitBreaker.state = "OPEN"
          /\ now < circuitBreaker.nextAttempt
          /\ CallArrives )
        => /\ circuitBreaker' = circuitBreaker
           /\ lastCall'.type = "throw"
           /\ ~lastCall'.invoked
           /\ pc' = pc
      ]_vars

\* a call was refused inside the cooldown with the database still down, the breaker
\* holding the failures that tripped it
C28_Witness ==
    /\ LastCallRefused
    /\ ~dbUp
    /\ circuitBreaker.state = "OPEN"
    /\ now < circuitBreaker.nextAttempt
    /\ circuitBreaker.failureCount >= circuitBreaker.failureThreshold
    /\ circuitBreaker.successCount = 0

\* C29: the breaker leaves OPEN only in a step in which an execute call at or after
\* nextAttempt invokes the operation, and that step moves it to HALF_OPEN; an execute
\* call that arrives at or after nextAttempt does so; and a step of the clock changes
\* no field of the breaker.
C29_OpenLeftOnlyByCall ==
    [][ /\ (circuitBreaker.state = "OPEN" /\ circuitBreaker'.state # "OPEN")
           => /\ circuitBreaker'.state = "HALF_OPEN"
              /\ now >= circuitBreaker.nextAttempt
              /\ \E c \in Callers : Invokes(c)
        /\ ( /\ circuitBreaker.state = "OPEN"
              /\ now >= circuitBreaker.nextAttempt
              /\ CallArrives )
           => /\ circuitBreaker'.state = "HALF_OPEN"
              /\ \E c \in Callers : Invokes(c)
        /\ now' # now => circuitBreaker' = circuitBreaker
      ]_vars

\* the clock ran past the deadline of a tripped breaker, and the first call after it
\* is the probe now in flight
C29_Witness ==
    /\ circuitBreaker.state = "HALF_OPEN"
    /\ now > circuitBreaker.nextAttempt
    /\ halfOpenProbes = 1
    /\ \E c \in Callers : pc[c] = "pending"

\* C30: a success that completes sets failureCount to 0 whatever the state; a failure
\* that completes adds one and nothing else changes the counter, so that failureCount
\* of a CLOSED breaker is the number of failures since the last success; and a CLOSED
\* breaker stays CLOSED in every step but a failure that brings the counter to
\* failureThreshold.
C30_SuccessResetsFailureRun ==
    [][ /\ \A c \in Callers :
              CompletesOk(c) => circuitBreaker'.failureCount = 0
        /\ \A c \in Callers :
              CompletesFailed(c)
              => circuitBreaker'.failureCount = circuitBreaker.failureCount + 1
        /\ circuitBreaker'.failureCount # circuitBreaker.failureCount
              => \E c \in Callers : Completes(c)
        /\ (circuitBreaker.state = "CLOSED" /\ circuitBreaker'.state # "CLOSED")
              => /\ circuitBreaker'.state = "OPEN"
                 /\ \E c \in Callers : CompletesFailed(c)
                 /\ circuitBreaker'.failureCount = circuitBreaker.failureThreshold
      ]_vars

\* a breaker that tripped and recovered is CLOSED and counts a new run of failures,
\* shorter than the threshold
C30_Witness ==
    /\ circuitBreaker.state = "CLOSED"
    /\ circuitBreaker.nextAttempt > 0
    /\ circuitBreaker.failureCount > 0
    /\ circuitBreaker.failureCount < circuitBreaker.failureThreshold
    /\ lastCall.type = "throw"
    /\ lastCall.invoked

\* C31: db_write_failures_total goes up only in a step in which the write of the
\* consumer's message was attempted and failed, and kafka_buffered_events_estimate
\* goes up only in a step in which the breaker refused the message without a write.
C31_RejectionAndFailureApart ==
    [][ /\ dbWriteFailures' > dbWriteFailures => CompletesFailed(Consumer)
        /\ bufferedEvents' > bufferedEvents
              => /\ lastCall'.type = "throw"
                 /\ ~lastCall'.invoked
                 /\ ~Completes(Consumer)
      ]_vars

\* C32: serving lookups never changes the filter: while the service listens, size,
\* hash count and bits are those of the filter loaded from bloom-filter.json, after
\* every request, whatever its username and whether its store query failed.
C32_LookupLeavesFilter ==
    serviceState = "listening" => bloomFilter = LoadBloomFilter(bloomFile)

\* requests were answered from a well-formed filter, the last of them for a name the
\* filter holds no bit pattern of, or with a store query that failed
C32_Witness ==
    /\ serviceState = "listening"
    /\ ~Malformed(bloomFilter)
    /\ RequestsAnswered = MaxRequests
    /\ \/ checkResponse.status = 500
       \/ checkResponse.status = 200 /\ ~checkResponse.mightExist

\* C34: after any requests, failed store queries included, the false-positive counter
\* equals the fallback counter of label not_exists, and the fallback counter over both
\* labels is at most the number of filter checks that answered maybe_exists.
C34_CountersAgree ==
    /\ falsePositivesTotal = dbFallbacksTotal["not_exists"]
    /\ dbFallbacksTotal["exists"] + dbFallbacksTotal["not_exists"]
          <= bloomChecksTotal["maybe_exists"]

\* a false positive was counted, and another request's store query failed after the
\* filter had answered maybe_exists
C34_Witness ==
    /\ falsePositivesTotal > 0
    /\ httpRequestsTotal["500"] > 0
    /\ dbFallbacksTotal["exists"] + dbFallbacksTotal["not_exists"]
          < bloomChecksTotal["maybe_exists"]

\* C35: a request whose filter check answered true and whose store query failed is
\* answered 500 with an error body, which reports the name neither as available nor as
\* existing, and the step counts neither a false positive nor a fallback.
C35_FailedQueryGivesNoVerdict ==
    [][ (checkResponse'.queryFailed /\ RequestsAnswered' > RequestsAnswered)
        => /\ bloomChecksTotal'["maybe_exists"] = bloomChecksTotal["maybe_exists"] + 1
           /\ checkResponse'.status = 500
           /\ checkResponse'.body = "error"
           /\ httpRequestsTotal'["500"] = httpRequestsTotal["500"] + 1
           /\ httpRequestsTotal'["200"] = httpRequestsTotal["200"]
           /\ falsePositivesTotal' = falsePositivesTotal
           /\ dbFallbacksTotal' = dbFallbacksTotal
      ]_vars

\* the store query failed for a name that is in the table
C35_Witness ==
    /\ checkResponse.queryFailed
    /\ checkResponse.status = 500
    /\ checkResponse.username \in Range(usernamesTable)

\* C36: an answer of GET /health is 200 'healthy' exactly when the breaker is CLOSED
\* at that moment and 503 'degraded' when it is OPEN or HALF_OPEN, and the step that
\* answers changes no field of the breaker.
C36_HealthFollowsBreaker ==
    [][ healthResponse' # healthResponse
        => /\ circuitBreaker' = circuitBreaker
           /\ healthResponse'.circuitBreaker = circuitBreaker.state
           /\ circuitBreaker.state = "CLOSED"
                 <=> (healthResponse'.status = 200 /\ healthResponse'.text = "healthy")
           /\ circuitBreaker.state \in {"OPEN", "HALF_OPEN"}
                 <=> (healthResponse'.status = 503 /\ healthResponse'.text = "degraded")
      ]_vars

\* /health answered 503 'degraded' for a breaker that a probe holds HALF_OPEN
C36_Witness ==
    /\ healthResponse.status = 503
    /\ healthResponse.text = "degraded"
    /\ healthResponse.circuitBreaker = "HALF_OPEN"
    /\ circuitBreaker.state = "HALF_OPEN"

\* C33: in every build, of either script and under every configuration, the item
\* count the filter was sized for equals the number of keys added to it, and the item
\* count written to metadata.totalItems equals both.
C33_SizedForKeysInserted ==
    \A i \in 1 .. Len(buildLog) :
        /\ buildLog[i].nbItems = Len(buildLog[i].keys)
        /\ buildLog[i].output.metadata.totalItems = buildLog[i].nbItems

\* the indices of the usernames of a set
IndicesOf(usernames) == {u.index : u \in usernames}

\* C37: after seed-data.js has run, table usernames and the Redis set each hold
\* TOTAL_USERNAMES usernames, those of the indices 0 .. TOTAL_USERNAMES - 1, which are
\* the indices the filter was built from, whatever positive number TOTAL_USERNAMES is.
C37_SeededCountsMatch ==
    (seedPc = "done" /\ LatestBuild.script = "seed-data")
    => /\ Len(usernamesTable) = env.TOTAL_USERNAMES
       /\ Cardinality(redisUsernames) = env.TOTAL_USERNAMES
       /\ IndicesOf(Range(LatestBuild.keys)) = 0 .. env.TOTAL_USERNAMES - 1
       /\ IndicesOf(Range(usernamesTable)) = IndicesOf(Range(LatestBuild.keys))
       /\ IndicesOf(redisUsernames) = IndicesOf(Range(LatestBuild.keys))

\* what the scan of buildBloomFilterFromPostgres has done is right so far: the rows
\* added are the first rows of the table, each once and in id order, and `processed`
\* is their number; the build that is finished added every row of the table once, and
\* processed as many keys as main counted rows at the start
ScannedOnce ==
    /\ remainingPc = "scan"
          => /\ scan.keys = SubSeq(usernamesTable, 1, Len(scan.keys))
             /\ scan.processed = Len(scan.keys)
    /\ (buildLog # << >> /\ remainingPc = "idle")
          => /\ LatestBuild.keys = usernamesTable
             /\ LatestBuild.processed = totalCount

\* C38: on a table that does not change, the paginated scan of seed-remaining.js
\* comes to an end for every table size, and it has then added every stored username
\* to the filter exactly once, the keys processed being as many as the rows counted.
C38_ScanTerminatesExactlyOnce ==
    /\ []ScannedOnce
    /\ (remainingPc = "scan") ~> (remainingPc = "idle")

\* a build has ended whose scan took a full page and then a short one
C38_Witness ==
    /\ remainingPc = "idle"
    /\ buildLog # << >>
    /\ LatestBuild.script = "seed-remaining"
    /\ LatestBuild.processed = MaxRows
    /\ LatestBuild.keys = usernamesTable

====
